---------------------------- MODULE Spec2Model ----------------------------
(***************************************************************************)
(* A model of the text-normalization pipeline of inktvis:                  *)
(*   header_stripper.py    strip_headers, _find_repeating_lines            *)
(*   structure_parser.py   parse_structure, _make_heading                  *)
(*   ocr_cloud.py          ocr_page and the repairs it applies             *)
(*   cli.py                _process_cloud, _process_local                  *)
(*                                                                         *)
(* A Python str is modelled as a sequence of characters, each character a  *)
(* one-element token ("a", " ", "\n"; the two non-ASCII letters used and   *)
(* the backquote are written by code point, "U+00C9", "U+00E9" and         *)
(* "U+0060").  Python indices are 0-based and are kept 0-based in the      *)
(* model: item(s, i) reads s[i].                                           *)
(***************************************************************************)
EXTENDS Integers, Sequences, FiniteSets, TLC

VARIABLES
    pages,            \* strip_headers: the argument `pages` (list of str)
    min_consecutive,  \* strip_headers: the argument `min_consecutive`
    header_lines,     \* strip_headers: local dict, page index -> line indices
    footer_lines,     \* strip_headers: local dict, page index -> line indices
    result,           \* strip_headers: the returned list of str
    text,             \* parse_structure: the argument `text` of the first call
    out,              \* parse_structure: the values returned so far, in order
    pc,               \* which call has been made
    content,          \* ocr_page: data["choices"][0]["message"]["content"]
    unfenced,         \* ocr_page: `text` after _strip_code_fences
    collapsed,        \* ocr_page: `text` after _collapse_runaway_lines
    cleaned,          \* ocr_page: `text` after _extract_page_number
    page_number,      \* ocr_page: `page_number`
    n_files,          \* cli: len(files)
    workers,          \* _process_cloud: the argument `workers`
    budget,           \* BudgetTracker.budget
    spent,            \* BudgetTracker.spent
    semaphore,        \* _process_cloud: the value of asyncio.Semaphore(workers)
    task,             \* _process_cloud: where each process_one(idx, file) stands
    done_order,       \* _process_cloud: the calls that returned, not yet taken up
    results,          \* _process_cloud: `results` (concurrent processing)
    failed,           \* _process_cloud: `failed`, the page numbers idx + 1
    cloud_pages,      \* _process_cloud: `pages`
    page_numbers,     \* _process_cloud: `page_numbers`
    seq_idx,          \* _process_cloud: `idx` of the sequential loop
    structured,       \* _process_local: `structured`
    assembled,        \* the arguments assemble was called with
    applied,          \* per file, the functions applied to its text so far
    attempt,          \* ocr_page: the loop variable `attempt`
    requests,         \* ocr_page: the number of client.post calls made
    errors,           \* ocr_page: the exceptions the except clause caught, in order
    sleeps,           \* ocr_page: the delays handed to asyncio.sleep, in order
    ocr_return,       \* ocr_page: the value returned
    raised            \* ocr_page: the exception the call ended with

\* the variables of the repairs in ocr_page
sanVars == <<content, unfenced, collapsed, cleaned, page_number>>

\* the variables of _process_cloud
cloudVars ==
    <<workers, budget, spent, semaphore, task, done_order, results, failed,
      cloud_pages, page_numbers, seq_idx>>

\* the variables of both processing modes
modeVars == <<n_files, structured, assembled, applied>>

\* the variables of the retry loop of ocr_page
retryVars == <<attempt, requests, errors, sleeps, ocr_return, raised>>

vars == <<pages, min_consecutive, header_lines, footer_lines, result, text, out, pc,
          sanVars, cloudVars, modeVars, retryVars>>

----------------------------------------------------------------------------
(* Python built-ins on str and list, as far as the modelled code uses them *)

\* list/str indexing with a 0-based index
item(s, i) == s[i + 1]

\* range(a, b)
range(a, b) == a .. (b - 1)

\* The characters str.isspace() is true of, among those of the model.
Whitespace == {" ", "\t", "\n", "\r"}

UpperChars == <<"A", "B", "C", "F", "T", "X", "U+00C9", "P", "G", "E", "N", "O">>
LowerChars == <<"a", "b", "c", "f", "t", "x", "U+00E9", "p", "g", "e", "n", "o">>

\* str.lower() on one character
lower_char(c) ==
    IF \E k \in 1..Len(UpperChars) : UpperChars[k] = c
    THEN LowerChars[CHOOSE k \in 1..Len(UpperChars) : UpperChars[k] = c]
    ELSE c

\* str.lower()
lower(s) == [k \in 1..Len(s) |-> lower_char(s[k])]

\* str.strip(): leading and trailing whitespace removed
RECURSIVE lstrip(_)
lstrip(s) ==
    IF s # <<>> /\ Head(s) \in Whitespace THEN lstrip(Tail(s)) ELSE s

RECURSIVE rstrip(_)
rstrip(s) ==
    IF s # <<>> /\ s[Len(s)] \in Whitespace
    THEN rstrip(SubSeq(s, 1, Len(s) - 1))
    ELSE s

strip(s) == rstrip(lstrip(s))

\* str.split(sep) for a one-character separator: always at least one piece
RECURSIVE split(_, _)
split(s, sep) ==
    IF \A k \in 1..Len(s) : s[k] # sep
    THEN <<s>>
    ELSE LET k == CHOOSE k \in 1..Len(s) :
                     s[k] = sep /\ \A j \in 1..(k - 1) : s[j] # sep
         IN  <<SubSeq(s, 1, k - 1)>> \o split(SubSeq(s, k + 1, Len(s)), sep)

\* str.split() without argument: pieces between whitespace runs, none empty
RECURSIVE split_ws(_)
split_ws(s) ==
    LET t == lstrip(s)
    IN  IF t = <<>>
        THEN <<>>
        ELSE IF \A k \in 1..Len(t) : t[k] \notin Whitespace
        THEN <<t>>
        ELSE LET k == CHOOSE k \in 1..Len(t) :
                         t[k] \in Whitespace /\ \A j \in 1..(k - 1) : t[j] \notin Whitespace
             IN  <<SubSeq(t, 1, k - 1)>> \o split_ws(SubSeq(t, k, Len(t)))

\* sep.join(parts)
RECURSIVE join(_, _)
join(sep, parts) ==
    IF parts = <<>> THEN <<>>
    ELSE IF Len(parts) = 1 THEN parts[1]
    ELSE parts[1] \o sep \o join(sep, Tail(parts))

\* s.replace(old, new) for a two-character `old`, left to right, non-overlapping
RECURSIVE replace2(_, _, _)
replace2(s, old, new) ==
    IF Len(s) < 2 THEN s
    ELSE IF SubSeq(s, 1, 2) = old
    THEN new \o replace2(SubSeq(s, 3, Len(s)), old, new)
    ELSE <<s[1]>> \o replace2(Tail(s), old, new)

\* Python's None
None == <<"None">>

\* neither _process_cloud nor _process_local has been called
ModeIdle ==
    /\ n_files = 0
    /\ workers = 0
    /\ budget = 0
    /\ spent = 0
    /\ semaphore = 0
    /\ task = <<>>
    /\ done_order = <<>>
    /\ results = <<>>
    /\ failed = <<>>
    /\ cloud_pages = <<>>
    /\ page_numbers = <<>>
    /\ seq_idx = 0
    /\ structured = <<>>
    /\ assembled = None
    /\ applied = <<>>

\* the retry loop of ocr_page has not been entered
RetryIdle ==
    /\ attempt = 0
    /\ requests = 0
    /\ errors = <<>>
    /\ sleeps = <<>>
    /\ ocr_return = None
    /\ raised = None

\* ocr_page has not been called
SanIdle ==
    /\ content = <<>>
    /\ unfenced = None
    /\ collapsed = None
    /\ cleaned = None
    /\ page_number = None

\* a Python int where None may stand as well (int | None)
IntValue(n) == <<"int", n>>

\* str.startswith, str.endswith
startswith(s, prefix) ==
    Len(s) >= Len(prefix) /\ SubSeq(s, 1, Len(prefix)) = prefix

endswith(s, suffix) ==
    Len(s) >= Len(suffix) /\ SubSeq(s, Len(s) - Len(suffix) + 1, Len(s)) = suffix

\* s[n:] and s[:-n]
drop_first(s, n) == SubSeq(s, n + 1, Len(s))
drop_last(s, n) == SubSeq(s, 1, Len(s) - n)

\* str.split("\n", 1): at most one split
split_once(s, sep) ==
    IF \A k \in 1..Len(s) : s[k] # sep
    THEN <<s>>
    ELSE LET k == CHOOSE k \in 1..Len(s) :
                     s[k] = sep /\ \A j \in 1..(k - 1) : s[j] # sep
         IN  <<SubSeq(s, 1, k - 1), SubSeq(s, k + 1, Len(s))>>

\* int() of a string of decimal digits
DigitSeq == <<"0", "1", "2", "3", "4", "5", "6", "7", "8", "9">>

RECURSIVE int_of(_)
int_of(d) ==
    IF d = <<>> THEN 0
    ELSE 10 * int_of(SubSeq(d, 1, Len(d) - 1))
         + ((CHOOSE k \in 1..10 : DigitSeq[k] = d[Len(d)]) - 1)

----------------------------------------------------------------------------
(* header_stripper.py                                                      *)

\* as normalized_of, without the lowercasing
normalized_keep_case(current) == join(<<" ">>, split_ws(current))

\* header_stripper.py:80  " ".join(current.lower().split())
normalized_of(current) == join(<<" ">>, split_ws(lower(current)))

\* header_stripper.py:51-54 and 61: the probed index of a page with n lines
probe_idx(position, line_offset, n) ==
    IF position = "top" THEN line_offset ELSE n - 1 - line_offset

\* dict.setdefault(j, set()).add(target_idx)
add_removal(removals, j, target_idx) ==
    [removals EXCEPT ![j] = @ \cup {target_idx}]

\* header_stripper.py:59-63 (again 71-75, 88-92, 102-106): mark the probed
\* line of every page j of range(run_start, stop)
RECURSIVE mark_run(_, _, _, _, _, _)
mark_run(pgs, position, line_offset, removals, j, stop) ==
    IF j >= stop THEN removals
    ELSE LET page_lines == split(item(pgs, j), "\n")
             target_idx == probe_idx(position, line_offset, Len(page_lines))
             marked     == IF target_idx >= 0 /\ target_idx < Len(page_lines)
                           THEN add_removal(removals, j, target_idx)
                           ELSE removals
         IN  mark_run(pgs, position, line_offset, marked, j + 1, stop)

\* as run_long_enough, with > for >=
run_longer_than(run_start, stop, minc) == (stop - run_start) > minc

\* header_stripper.py:58, 70, 87, 101: the length test of a run that ends at `stop`
run_long_enough(run_start, stop, minc) == (stop - run_start) >= minc

\* header_stripper.py:58-63: close the run that ends before page `stop`
close_run(pgs, position, line_offset, minc, removals, run_text, run_start, stop) ==
    IF run_text # None /\ run_long_enough(run_start, stop, minc)
    THEN mark_run(pgs, position, line_offset, removals, run_start, stop)
    ELSE removals


\* as page_step, with a blank line compared like any other line
page_step_blank_matches(pgs, position, line_offset, minc, st, i) ==
    LET lines  == split(item(pgs, i), "\n")
        idx    == probe_idx(position, line_offset, Len(lines))
        closed == close_run(pgs, position, line_offset, minc,
                            st.removals, st.run_text, st.run_start, i)
    IN  IF idx < 0 \/ idx >= Len(lines)
        THEN [removals |-> closed, run_start |-> st.run_start, run_text |-> None]
        ELSE LET normalized == normalized_of(strip(item(lines, idx)))
             IN  IF st.run_text # None /\ normalized = st.run_text
                 THEN st
                 ELSE IF st.run_text # None
                 THEN [removals |-> closed, run_start |-> i, run_text |-> normalized]
                 ELSE [removals |-> st.removals, run_start |-> i, run_text |-> normalized]

\* as page_step, with a blank line skipped without ending the run
page_step_blank_skipped(pgs, position, line_offset, minc, st, i) ==
    LET lines  == split(item(pgs, i), "\n")
        idx    == probe_idx(position, line_offset, Len(lines))
        closed == close_run(pgs, position, line_offset, minc,
                            st.removals, st.run_text, st.run_start, i)
    IN  IF idx < 0 \/ idx >= Len(lines)
        THEN [removals |-> closed, run_start |-> st.run_start, run_text |-> None]
        ELSE LET current == strip(item(lines, idx))
             IN  IF current = <<>>
                 THEN st
                 ELSE LET normalized == normalized_of(current)
                      IN  IF st.run_text # None /\ normalized = st.run_text
                          THEN st
                          ELSE IF st.run_text # None
                          THEN [removals |-> closed, run_start |-> i, run_text |-> normalized]
                          ELSE [removals |-> st.removals, run_start |-> i, run_text |-> normalized]

\* header_stripper.py:48-98: one iteration of the loop over the pages; the loop
\* state is [removals, run_start, run_text]
page_step(pgs, position, line_offset, minc, st, i) ==
    LET lines  == split(item(pgs, i), "\n")
        idx    == probe_idx(position, line_offset, Len(lines))
        closed == close_run(pgs, position, line_offset, minc,
                            st.removals, st.run_text, st.run_start, i)
    IN  IF idx < 0 \/ idx >= Len(lines)
        THEN \* lines 56-65: end current run
             [removals |-> closed, run_start |-> st.run_start, run_text |-> None]
        ELSE LET current == strip(item(lines, idx))
             IN  IF current = <<>>
                 THEN \* lines 68-77: skip blank lines, end run
                      [removals |-> closed, run_start |-> st.run_start, run_text |-> None]
                 ELSE LET normalized == normalized_of(current)
                      IN  IF st.run_text # None /\ normalized = st.run_text
                          THEN st                                  \* lines 82-84
                          ELSE IF st.run_text # None
                          THEN \* lines 85-94: end run, start the next
                               [removals |-> closed, run_start |-> i, run_text |-> normalized]
                          ELSE \* lines 95-98: start new run
                               [removals |-> st.removals, run_start |-> i, run_text |-> normalized]

RECURSIVE page_loop(_, _, _, _, _, _)
page_loop(pgs, position, line_offset, minc, st, i) ==
    IF i >= Len(pgs) THEN st
    ELSE page_loop(pgs, position, line_offset, minc,
                   page_step(pgs, position, line_offset, minc, st, i), i + 1)

\* header_stripper.py:43-106: the body of the loop over line_offset
offset_pass(pgs, position, minc, removals, line_offset) ==
    LET st == page_loop(pgs, position, line_offset, minc,
                        [removals |-> removals, run_start |-> 0, run_text |-> None], 0)
    IN  \* lines 100-106: handle final run
        close_run(pgs, position, line_offset, minc,
                  st.removals, st.run_text, st.run_start, Len(pgs))

RECURSIVE offset_loop(_, _, _, _, _, _)
offset_loop(pgs, position, minc, check_lines, removals, line_offset) ==
    IF line_offset >= check_lines THEN removals
    ELSE offset_loop(pgs, position, minc, check_lines,
                     offset_pass(pgs, position, minc, removals, line_offset),
                     line_offset + 1)

\* header_stripper.py:34: the default of check_lines
check_lines_default == 2

\* header_stripper.py:33-108.  The dict is total here: a page index that the
\* code never inserts maps to the empty set (header_lines.get(i, set())).
_find_repeating_lines(pgs, position, minc) ==
    offset_loop(pgs, position, minc, check_lines_default,
                [j \in range(0, Len(pgs)) |-> {}], 0)

\* as _remove_lines, with the footer indices ignored
_remove_lines_header_only(lines, header_indices, footer_indices) ==
    SelectSeq([k \in 1..Len(lines) |-> <<k - 1, lines[k]>>],
              LAMBDA e : e[1] \notin header_indices)

\* header_stripper.py:111-114
_remove_lines(lines, header_indices, footer_indices) ==
    LET to_remove == header_indices \cup footer_indices
    IN  SelectSeq([k \in 1..Len(lines) |-> <<k - 1, lines[k]>>],
                  LAMBDA e : e[1] \notin to_remove)

\* the text of the lines _remove_lines keeps
kept_lines(lines, header_indices, footer_indices) ==
    LET kept == _remove_lines(lines, header_indices, footer_indices)
    IN  [k \in 1..Len(kept) |-> kept[k][2]]

\* as too_few_pages, one page off
too_few_pages_off_by_one(pgs, minc) == Len(pgs) < minc - 1

\* header_stripper.py:18: the early return
too_few_pages(pgs, minc) == Len(pgs) < minc

\* header_stripper.py:26-28: one page of the result
clean_page(page, header_indices, footer_indices) ==
    strip(join(<<"\n">>, kept_lines(split(page, "\n"), header_indices, footer_indices)))

\* header_stripper.py:4-30: [header_lines, footer_lines, result]
strip_headers(pgs, minc) ==
    IF too_few_pages(pgs, minc)
    THEN [header_lines |-> None, footer_lines |-> None, result |-> pgs]
    ELSE LET hl == _find_repeating_lines(pgs, "top", minc)
             fl == _find_repeating_lines(pgs, "bottom", minc)
         IN  [header_lines |-> hl,
              footer_lines |-> fl,
              result |-> [k \in 1..Len(pgs) |->
                             clean_page(pgs[k], hl[k - 1], fl[k - 1])]]

----------------------------------------------------------------------------
(* structure_parser.py                                                     *)

\* \d
Digits == {"0", "1", "2", "3", "4", "5", "6", "7", "8", "9"}

\* [ \t]
BlankChars == {" ", "\t"}

\* [A-Z]
AsciiUpper ==
    {"A", "B", "C", "D", "E", "F", "G", "H", "I", "J", "K", "L", "M",
     "N", "O", "P", "Q", "R", "S", "T", "U", "V", "W", "X", "Y", "Z"}

\* [À-ɏ], among the characters of the model: the range holds the
\* accented capitals (U+00C9) and the accented small letters (U+00E9) alike
LatinExtended == {"U+00C9", "U+00E9"}

\* .  (with re.MULTILINE and no DOTALL: any character but the line break)
AnyChar(c) == c # "\n"

\* the length of the longest run of characters of class C that starts at s[i]
RECURSIVE span(_, _, _)
span(s, i, C) ==
    IF i <= Len(s) /\ s[i] \in C THEN 1 + span(s, i + 1, C) ELSE 0

\* ^\d+(\.\d+){groups-1} matched at position i of a line: the position after
\* the number, or 0 when there is no match
RECURSIVE number_end(_, _, _)
number_end(s, i, groups) ==
    LET d == span(s, i, Digits)
    IN  IF d = 0 THEN 0
        ELSE IF groups = 1 THEN i + d
        ELSE IF i + d <= Len(s) /\ s[i + d] = "."
        THEN number_end(s, i + d + 1, groups - 1)
        ELSE 0

\* (.+): the title may start with any character
AnyInitial == "any"

\* as SECTION_PATTERNS, with the levels of the first two patterns exchanged
SECTION_PATTERNS_levels_swapped ==
    << [groups |-> 3, initial |-> AnyInitial, more |-> 0, level |-> 3],
       [groups |-> 2, initial |-> AnyInitial, more |-> 0, level |-> 4],
       [groups |-> 1, initial |-> "capital", more |-> 2, level |-> 2] >>

\* structure_parser.py:10-18.  Each pattern is ^(number)[ \t]+(title)$ with
\* `groups` digit groups in the number; `initial` is the class of the title's
\* first character and `more` the least number of characters after it.
SECTION_PATTERNS ==
    << [groups |-> 3, initial |-> AnyInitial, more |-> 0, level |-> 4],
       [groups |-> 2, initial |-> AnyInitial, more |-> 0, level |-> 3],
       [groups |-> 1, initial |-> "capital", more |-> 2, level |-> 2] >>

\* the title part of a pattern matches t: first character of the class, then
\* at least `more` further characters, none a line break
title_matches(pat, t) ==
    /\ Len(t) >= 1 + pat.more
    /\ \A k \in 1..Len(t) : AnyChar(t[k])
    /\ pat.initial = AnyInitial \/ t[1] \in (AsciiUpper \cup LatinExtended)

\* the result of a pattern that does not match (None, as a match object)
NoMatch == [number |-> None, title |-> None]

\* re.Pattern.match of one pattern on one line (between ^ and $ under
\* re.MULTILINE): NoMatch, or [number, title] = groups 1 and 2.  [ \t]+ is
\* greedy and gives characters back until the title matches.
match_line(pat, line) ==
    LET e == number_end(line, 1, pat.groups)
        w == IF e = 0 THEN 0 ELSE span(line, e, BlankChars)
        fits == {v \in 1..w : title_matches(pat, SubSeq(line, e + v, Len(line)))}
    IN  IF e = 0 \/ fits = {}
        THEN NoMatch
        ELSE LET v == CHOOSE v \in fits : \A u \in fits : u <= v
             IN  [number |-> SubSeq(line, 1, e - 1),
                  title  |-> SubSeq(line, e + v, Len(line))]

\* as pattern_match, with blanks allowed before the number (^[ \t]*)
pattern_match_indented(pat, line) ==
    match_line(pat, SubSeq(line, 1 + span(line, 1, BlankChars), Len(line)))

\* the ^ of the patterns: the number starts the line
pattern_match(pat, line) == match_line(pat, line)

\* "#" * level
hashes(level) == [k \in 1..level |-> "#"]

\* structure_parser.py:40-47
_make_heading(m, level) ==
    LET number == m.number
        title  == replace2(strip(m.title), <<"*", "*">>, <<>>)
        prefix == hashes(level)
    IN  prefix \o <<" ">> \o number \o <<" ">> \o title

\* one line of pattern.sub(lambda m: _make_heading(m, level), text)
sub_line(pat, line) ==
    LET m == pattern_match(pat, line)
    IN  IF m = NoMatch THEN line ELSE _make_heading(m, pat.level)

\* structure_parser.py:32  pattern.sub(...) over the whole text: under
\* re.MULTILINE every match lies between two line breaks
sub_pattern(pat, txt) ==
    LET lines == split(txt, "\n")
    IN  join(<<"\n">>, [k \in 1..Len(lines) |-> sub_line(pat, lines[k])])

\* structure_parser.py:31-32: the loop over SECTION_PATTERNS
RECURSIVE apply_patterns(_, _)
apply_patterns(pats, txt) ==
    IF pats = <<>> THEN txt
    ELSE apply_patterns(Tail(pats), sub_pattern(Head(pats), txt))

\* as collapse_blank_lines, for the pattern \n{4} in place of \n{4,}
RECURSIVE collapse_four_only(_)
collapse_four_only(s) ==
    IF s = <<>> THEN <<>>
    ELSE IF span(s, 1, {"\n"}) >= 4
    THEN <<"\n", "\n", "\n">> \o collapse_four_only(SubSeq(s, 5, Len(s)))
    ELSE <<s[1]>> \o collapse_four_only(Tail(s))

\* as collapse_blank_lines, for the pattern \n{5,} in place of \n{4,}
RECURSIVE collapse_five_or_more(_)
collapse_five_or_more(s) ==
    IF s = <<>> THEN <<>>
    ELSE LET n == span(s, 1, {"\n"})
         IN  IF n >= 5
             THEN <<"\n", "\n", "\n">> \o collapse_five_or_more(SubSeq(s, n + 1, Len(s)))
             ELSE IF n >= 1
             THEN SubSeq(s, 1, n) \o collapse_five_or_more(SubSeq(s, n + 1, Len(s)))
             ELSE <<s[1]>> \o collapse_five_or_more(Tail(s))

\* structure_parser.py:35  re.sub(r"\n{4,}", "\n\n\n", text)
RECURSIVE collapse_blank_lines(_)
collapse_blank_lines(s) ==
    IF s = <<>> THEN <<>>
    ELSE LET n == span(s, 1, {"\n"})
         IN  IF n >= 4
             THEN <<"\n", "\n", "\n">> \o collapse_blank_lines(SubSeq(s, n + 1, Len(s)))
             ELSE IF n >= 1
             THEN SubSeq(s, 1, n) \o collapse_blank_lines(SubSeq(s, n + 1, Len(s)))
             ELSE <<s[1]>> \o collapse_blank_lines(Tail(s))

\* structure_parser.py:21-37
parse_structure(txt) == collapse_blank_lines(apply_patterns(SECTION_PATTERNS, txt))

----------------------------------------------------------------------------
(* ocr_cloud.py: the repairs of the model's output                         *)

\* the code fence ```; the backquote is written by code point
Fence == <<"U+0060", "U+0060", "U+0060">>
FenceMarkdown == Fence \o <<"m", "a", "r", "k", "d", "o", "w", "n">>

\* ocr_cloud.py:151-160
_strip_code_fences(txt) ==
    LET t0 == strip(txt)
        t1 == IF startswith(t0, FenceMarkdown) THEN drop_first(t0, Len(FenceMarkdown))
              ELSE IF startswith(t0, Fence) THEN drop_first(t0, 3)
              ELSE t0
        t2 == IF endswith(t1, Fence) THEN drop_last(t1, 3) ELSE t1
    IN  strip(t2)

\* the number of characters c in a row, from s[i] on
run_length(s, i, c) ==
    IF i > Len(s) \/ s[i] # c THEN 0
    ELSE CHOOSE n \in 1..(Len(s) - i + 1) :
             /\ i + n > Len(s) \/ s[i + n] # c
             /\ \A k \in i..(i + n - 1) : s[k] = c

\* the number of characters other than c in a row, from s[i] on
other_length(s, i, c) ==
    IF i > Len(s) \/ s[i] = c THEN 0
    ELSE CHOOSE n \in 1..(Len(s) - i + 1) :
             /\ i + n > Len(s) \/ s[i + n] = c
             /\ \A k \in i..(i + n - 1) : s[k] # c

\* re.sub(r"c{4,}", "ccc", s), from s[i] on
RECURSIVE sub_runs(_, _, _)
sub_runs(s, i, c) ==
    IF i > Len(s) THEN <<>>
    ELSE LET n == run_length(s, i, c)
         IN  IF n >= 4
             THEN <<c, c, c>> \o sub_runs(s, i + n, c)
             ELSE IF n >= 1
             THEN SubSeq(s, i, i + n - 1) \o sub_runs(s, i + n, c)
             ELSE LET m == other_length(s, i, c)
                  IN  SubSeq(s, i, i + m - 1) \o sub_runs(s, i + m, c)

\* ocr_cloud.py:143: the length from which on a line counts as runaway
runaway_limit == 500

\* as is_runaway, with >= for >
is_runaway_from_limit(line) == Len(line) >= runaway_limit

\* ocr_cloud.py:143  len(line) > 500
is_runaway(line) == Len(line) > runaway_limit

\* ocr_cloud.py:143-147: one line
collapse_line(line) ==
    IF is_runaway(line)
    THEN sub_runs(sub_runs(sub_runs(line, 1, "-"), 1, "="), 1, "_")
    ELSE line

\* ocr_cloud.py:134-148
_collapse_runaway_lines(txt) ==
    LET lines == split(txt, "\n")
    IN  join(<<"\n">>, [k \in 1..Len(lines) |-> collapse_line(lines[k])])

MarkerOpen == <<"[", "p", "a", "g", "e", ":">>
MarkerNone == <<"n", "o", "n", "e">>

\* as marker_match, without the re.IGNORECASE flag
marker_match_case_sensitive(first_line) ==
    LET n     == Len(first_line)
        value == SubSeq(first_line, 7, n - 1)
    IN  IF /\ n >= 8
           /\ SubSeq(first_line, 1, 6) = MarkerOpen
           /\ first_line[n] = "]"
           /\ \/ \A k \in 1..Len(value) : value[k] \in Digits
              \/ value = MarkerNone
        THEN value
        ELSE None

\* ocr_cloud.py:167  re.match(r"^\[page:(\d+|none)\]$", first_line,
\* re.IGNORECASE): group 1, or None when the line does not match
marker_match(first_line) ==
    LET n     == Len(first_line)
        value == SubSeq(first_line, 7, n - 1)
    IN  IF /\ n >= 8
           /\ lower(SubSeq(first_line, 1, 6)) = MarkerOpen
           /\ first_line[n] = "]"
           /\ \/ \A k \in 1..Len(value) : value[k] \in Digits
              \/ lower(value) = MarkerNone
        THEN value
        ELSE None

\* ocr_cloud.py:163-173: [text, page_number]
_extract_page_number(txt) ==
    LET lines      == split_once(txt, "\n")
        first_line == strip(lines[1])
        match      == marker_match(first_line)
    IN  IF match # None
        THEN LET remainder == IF Len(lines) > 1 THEN strip(lines[2]) ELSE <<>>
                 value     == match
                 page_num  == IF lower(value) # MarkerNone
                              THEN IntValue(int_of(value))
                              ELSE None
             IN  [text |-> remainder, page_number |-> page_num]
        ELSE [text |-> txt, page_number |-> None]

----------------------------------------------------------------------------
(* Inputs of strip_headers                                                 *)

\* all sequences over S of length at most n
SeqsUpTo(S, n) == UNION {[1..k -> S] : k \in 0..n}

\* page texts: 1 to 5 lines, blank lines, case and spacing variants of one
\* running header ("A b") and of one running footer ("F")
PageEmpty    == <<>>
PageOneLine  == <<"A", " ", "b">>
PageTwoLines == <<"a", " ", "\t", "B", "\n", "x">>
PageFiveLines ==
    <<"A", " ", "b", "\n", " ", "\n", "x", "\n", "x", "\n", "F">>
PageThreeLines == <<"a", " ", "c", "\n", "x", "\n", "f">>
PageBlankTop == <<" ", "\n", " ", "A", " ", "b", "\n", "F">>

PagePool ==
    {PageEmpty, PageOneLine, PageTwoLines, PageFiveLines, PageThreeLines, PageBlankTop}

\* the pages of the blank-line example: "X" and ""
BreakerPool == {<<"X">>, <<>>}

MaxPages == 4
MaxBreakerPages == 6
MaxMinConsecutive == 3

InitStrip ==
    /\ pages \in SeqsUpTo(PagePool, MaxPages) \cup SeqsUpTo(BreakerPool, MaxBreakerPages)
    /\ min_consecutive \in 1..MaxMinConsecutive
    /\ header_lines = None
    /\ footer_lines = None
    /\ result = None
    /\ text = <<>>
    /\ out = <<>>
    /\ pc = "strip"
    /\ SanIdle
    /\ ModeIdle
    /\ RetryIdle

\* cli.py:224 calls strip_headers(raw_pages); header_stripper.py:4-30
StripHeaders ==
    /\ pc = "strip"
    /\ LET r == strip_headers(pages, min_consecutive)
       IN  /\ header_lines' = r.header_lines
           /\ footer_lines' = r.footer_lines
           /\ result' = r.result
    /\ pc' = "stripped"
    /\ UNCHANGED <<pages, min_consecutive, text, out>>
    /\ UNCHANGED <<sanVars, cloudVars, modeVars, retryVars>>

NextStrip == StripHeaders

SpecStrip == InitStrip /\ [][NextStrip]_vars

----------------------------------------------------------------------------
(* Inputs of parse_structure                                               *)

\* pieces of text, joined by line breaks into the argument of parse_structure
FragEmpty        == <<>>
FragBreak        == <<"\n">>
FragGap          == <<"\n", "\n", "\n">>
FragBody         == <<"a", "b">>
FragSubsection   == <<"4", ".", "1", ".", "1", " ", "T", "t">>
FragSubsecTab    == <<"4", ".", "1", ".", "1", "\t", " ", "T", "t", " ">>
FragSection      == <<"4", ".", "1", " ", "T", "t">>
FragSectionBlank == <<"4", ".", "1", " ", " ">>
FragSectionCR    == <<"4", ".", "1", " ", "T", "t", "\r">>
FragSectionBold  == <<"4", ".", "1", " ", "*", "*", "T", "t", "*", "*">>
FragChapter      == <<"1", "2", " ", "T", "t", "a">>
FragChapterShort == <<"4", " ", "T", "t">>
FragChapterLower == <<"4", " ", "t", "t", "a">>
FragChapterAccUp == <<"4", " ", "U+00C9", "t", "a">>
FragChapterAccLo == <<"4", " ", "U+00E9", "t", "a">>
FragChapterBold  == <<"4", " ", "*", "*", "T", "t", "a", "*", "*">>
FragChapterInner == <<"4", " ", "T", "*", "*", "t", "*", "*", "a">>
FragNumberOnly   == <<"4", "2">>
FragMidLine      == <<"s", "e", "e", " ", "4", ".", "1", " ", "T", "t">>
FragIndented     == <<" ", "4", ".", "1", " ", "T", "t">>
FragFourGroups   == <<"4", ".", "1", ".", "1", ".", "1", " ", "T", "t">>
FragNoSpace      == <<"4", ".", "1", "T", "t">>
FragHeading      == <<"#", "#", " ", "4", " ", "T", "t", "a">>
FragGapAfter     == <<"a", "\n", "\n", "\n">>
FragGapBefore    == <<"\n", "\n", "b">>

FragmentPool ==
    {FragEmpty, FragBreak, FragGap, FragBody, FragSubsection, FragSubsecTab,
     FragSection, FragSectionBlank, FragSectionCR, FragSectionBold,
     FragChapter, FragChapterShort, FragChapterLower, FragChapterAccUp,
     FragChapterAccLo, FragChapterBold, FragChapterInner, FragNumberOnly,
     FragMidLine, FragIndented, FragFourGroups, FragNoSpace, FragHeading,
     FragGapAfter, FragGapBefore}

MaxFragments == 2
MaxCalls == 2

InitParse ==
    /\ text \in {join(<<"\n">>, f) : f \in SeqsUpTo(FragmentPool, MaxFragments)}
    /\ out = <<>>
    /\ pages = <<>>
    /\ min_consecutive = 1
    /\ header_lines = None
    /\ footer_lines = None
    /\ result = None
    /\ pc = "parse"
    /\ SanIdle
    /\ ModeIdle
    /\ RetryIdle

\* cli.py:228 calls parse_structure(page); structure_parser.py:21-37.  A
\* further call is given what the call before it returned.
ParseStructure ==
    /\ pc = "parse"
    /\ Len(out) < MaxCalls
    /\ out' = Append(out, parse_structure(IF out = <<>> THEN text ELSE out[Len(out)]))
    /\ UNCHANGED <<pages, min_consecutive, header_lines, footer_lines, result, text, pc>>
    /\ UNCHANGED <<sanVars, cloudVars, modeVars, retryVars>>

NextParse == ParseStructure

SpecParse == InitParse /\ [][NextParse]_vars

----------------------------------------------------------------------------
(* Inputs of the repairs: what the model may send back as content          *)

\* n times the character c
Rep(c, n) == [k \in 1..n |-> c]

\* what the content may open with
OpenBare     == Fence
OpenBareLine == Fence \o <<"\n">>
OpenTagged   == FenceMarkdown \o <<"\n">>
OpenTaggedNoBreak == FenceMarkdown
OpenPython   == Fence \o <<"p", "y", "\n">>
OpenPadded   == <<" ", "\n">> \o FenceMarkdown \o <<"\n">>

OpenPool ==
    {<<>>, OpenBare, OpenBareLine, OpenTagged, OpenTaggedNoBreak, OpenPython, OpenPadded}

\* what it may close with
CloseBare    == Fence
CloseLine    == <<"\n">> \o Fence
ClosePadded  == <<"\n">> \o Fence \o <<" ", "\n">>
CloseShort   == <<"U+0060", "U+0060">>

ClosePool == {<<>>, CloseBare, CloseLine, ClosePadded, CloseShort}

\* first lines: page markers, well formed and malformed
FirstBody       == <<"B", "o">>
FirstMarker17   == <<"[", "p", "a", "g", "e", ":", "1", "7", "]">>
FirstMarker007  == <<"[", "p", "a", "g", "e", ":", "0", "0", "7", "]">>
FirstMarkerNone == <<"[", "p", "a", "g", "e", ":", "n", "o", "n", "e", "]">>
FirstMarkerCaps == <<"[", "P", "A", "G", "E", ":", "N", "o", "n", "e", "]">>
FirstMarkerCapsNum == <<"[", "P", "a", "g", "e", ":", "4", "]">>
FirstMarkerEmpty == <<"[", "p", "a", "g", "e", ":", "]">>
FirstMarker12a  == <<"[", "p", "a", "g", "e", ":", "1", "2", "a", "]">>
FirstMarkerSpace == <<"[", "p", "a", "g", "e", ":", "1", "7", "]", " ">>
FirstMarkerCR   == <<"[", "p", "a", "g", "e", ":", "1", "7", "]", "\r">>
FirstMarkerInner == <<"[", "p", "a", "g", "e", ":", " ", "1", "7", "]">>
FirstMarkerTail == <<"[", "p", "a", "g", "e", ":", "1", "7", "]", "x">>
FirstMarkerNoBracket == <<"p", "a", "g", "e", ":", "1", "7">>

FirstLinePool ==
    {FirstBody, FirstMarker17, FirstMarker007, FirstMarkerNone, FirstMarkerCaps,
     FirstMarkerCapsNum, FirstMarkerEmpty, FirstMarker12a, FirstMarkerSpace,
     FirstMarkerCR, FirstMarkerInner, FirstMarkerTail, FirstMarkerNoBracket}

\* the lines after the first
BodyLinePool ==
    {<<>>, <<"B", "o">>, <<" ", "x", " ">>, <<"[", "p", "a", "g", "e", ":", "3", "]">>,
     Rep("-", runaway_limit + 1)}

\* lines of 500 characters and around, with and without runs to collapse
LineDashes600   == Rep("-", 600)
LineDashesAtLimit == Rep("-", runaway_limit)
LineDashesShort == Rep("-", 10)
LineUnderscores == Rep("_", runaway_limit + 1)
LineMixed ==
    <<"|">> \o Rep("-", 4) \o <<"|">> \o Rep("=", 5) \o <<"|">> \o Rep("_", 3)
        \o <<"|">> \o Rep("-", 3) \o Rep("a", 490)
LineMixedAtLimit ==
    <<"|">> \o Rep("-", 4) \o <<"|">> \o Rep("=", 5) \o <<"|">> \o Rep("_", 3)
        \o <<"|">> \o Rep("-", 3) \o Rep("a", 481)
LineAdjacent == Rep("-", 4) \o Rep("=", 4) \o Rep("-", 7) \o Rep("a", 490)
LineNoRuns == Rep("a", 510)

LongLinePool ==
    {<<>>, LineDashes600, LineDashesAtLimit, LineDashesShort, LineUnderscores,
     LineMixed, LineMixedAtLimit, LineAdjacent, LineNoRuns}

MaxBodyLines == 1
MaxLongLines == 2

\* a first line and up to MaxBodyLines further lines between an opener and a
\* closer, or up to MaxLongLines lines of 500 characters and around
ContentPool ==
    {o \o join(<<"\n">>, <<f>> \o b) \o c :
        o \in OpenPool, f \in FirstLinePool,
        b \in SeqsUpTo(BodyLinePool, MaxBodyLines), c \in ClosePool}
    \cup {<<>>}
    \cup {join(<<"\n">>, ls) : ls \in SeqsUpTo(LongLinePool, MaxLongLines)}

InitSanitize ==
    /\ content \in ContentPool
    /\ unfenced = None
    /\ collapsed = None
    /\ cleaned = None
    /\ page_number = None
    /\ pages = <<>>
    /\ min_consecutive = 1
    /\ header_lines = None
    /\ footer_lines = None
    /\ result = None
    /\ text = <<>>
    /\ out = <<>>
    /\ pc = "fences"
    /\ ModeIdle
    /\ RetryIdle

\* ocr_cloud.py:112
StripCodeFences ==
    /\ pc = "fences"
    /\ unfenced' = _strip_code_fences(content)
    /\ pc' = "runaway"
    /\ UNCHANGED <<content, collapsed, cleaned, page_number>>
    /\ UNCHANGED <<pages, min_consecutive, header_lines, footer_lines, result, text, out>>
    /\ UNCHANGED <<cloudVars, modeVars, retryVars>>

\* ocr_cloud.py:114
CollapseRunawayLines ==
    /\ pc = "runaway"
    /\ collapsed' = _collapse_runaway_lines(unfenced)
    /\ pc' = "marker"
    /\ UNCHANGED <<content, unfenced, cleaned, page_number>>
    /\ UNCHANGED <<pages, min_consecutive, header_lines, footer_lines, result, text, out>>
    /\ UNCHANGED <<cloudVars, modeVars, retryVars>>

\* ocr_cloud.py:116
ExtractPageNumber ==
    /\ pc = "marker"
    /\ LET r == _extract_page_number(collapsed)
       IN  /\ cleaned' = r.text
           /\ page_number' = r.page_number
    /\ pc' = "sanitized"
    /\ UNCHANGED <<content, unfenced, collapsed>>
    /\ UNCHANGED <<pages, min_consecutive, header_lines, footer_lines, result, text, out>>
    /\ UNCHANGED <<cloudVars, modeVars, retryVars>>

NextSanitize == StripCodeFences \/ CollapseRunawayLines \/ ExtractPageNumber

SpecSanitize == InitSanitize /\ [][NextSanitize]_vars

----------------------------------------------------------------------------
(* cli.py: _process_cloud                                                  *)

\* ocr_cloud.py:112-116: the functions ocr_page applies to the content, in
\* the order it applies them
SanitizerStages ==
    <<"_strip_code_fences", "_collapse_runaway_lines", "_extract_page_number">>

\* ocr_cloud.py:110-122: [text, page_number] of what ocr_page returns for a
\* response with the given content
ocr_page_result(c) ==
    _extract_page_number(_collapse_runaway_lines(_strip_code_fences(c)))

\* range(len(files))
FileIdx == range(0, n_files)

\* cost_estimator.py:66-68  BudgetTracker.exceeded
exceeded(sp, bd) == sp > bd

\* as store_result, filling the slots in the order the calls complete
store_result_in_completion_order(res, i, txt, page_num) ==
    LET free == CHOOSE k \in 1..Len(res) :
                    /\ res[k] = <<None, None>>
                    /\ \A j \in 1..(k - 1) : res[j] # <<None, None>>
    IN  [res EXCEPT ![free] = <<txt, page_num>>]

\* cli.py:181  results[idx] = (text, page_num)
store_result(res, i, txt, page_num) == [res EXCEPT ![i + 1] = <<txt, page_num>>]

\* a call of process_one that has not been made; `at` is one of "new",
\* "waiting" (at `async with semaphore`), "in_flight" (at `await
\* ocr_page_cloud`), "returned" and "taken"
NewTask == [at |-> "new", text |-> None, page_num |-> None]

\* the contents a response may carry, and the costs ocr_page may report
CloudContentPool ==
    { <<"B", "o">>,
      <<"[", "P", "a", "g", "e", ":", "4", "]", "\n", " ", "x">>,
      <<>> }

CostPool == {0, 1}

MaxFiles == 3
MaxWorkers == 2
MaxBudget == 1

\* cli.py:130-135 and 157
InitCloud ==
    /\ n_files \in 0..MaxFiles
    /\ workers \in 0..MaxWorkers
    /\ budget \in 0..MaxBudget
    /\ spent = 0
    /\ semaphore = workers
    /\ task = [k \in 1..n_files |-> NewTask]
    /\ done_order = <<>>
    /\ results = <<>>
    /\ failed = <<>>
    /\ cloud_pages = <<>>
    /\ page_numbers = <<>>
    /\ seq_idx = 0
    /\ structured = <<>>
    /\ assembled = None
    /\ applied = [k \in 1..n_files |-> <<>>]
    /\ pc = IF workers = 1 THEN "seq_loop" ELSE "spawn"
    /\ pages = <<>>
    /\ min_consecutive = 1
    /\ header_lines = None
    /\ footer_lines = None
    /\ result = None
    /\ text = <<>>
    /\ out = <<>>
    /\ SanIdle
    /\ RetryIdle

\* what the actions of _process_cloud leave alone
CloudFrame ==
    UNCHANGED <<pages, min_consecutive, header_lines, footer_lines, result, text, out,
                sanVars, n_files, workers, budget, structured, retryVars>>

\* cli.py:138-142: process_one(i) enters `async with semaphore`, reads
\* tracker.exceeded and, if the budget is not exceeded, starts the OCR call
Acquire(i) ==
    /\ pc \in {"seq_wait", "gather"}
    /\ item(task, i).at = "waiting"
    /\ semaphore > 0
    /\ IF exceeded(spent, budget)
       THEN /\ task' = [task EXCEPT ![i + 1].at = "returned"]
            /\ done_order' = Append(done_order, i)
            /\ UNCHANGED semaphore
       ELSE /\ task' = [task EXCEPT ![i + 1].at = "in_flight"]
            /\ semaphore' = semaphore - 1
            /\ UNCHANGED done_order
    /\ UNCHANGED <<spent, results, failed, cloud_pages, page_numbers, seq_idx,
                   assembled, applied, pc>>
    /\ CloudFrame

\* cli.py:142-146: the OCR call of process_one(i) returns
CallReturns(i) ==
    /\ pc \in {"seq_wait", "gather"}
    /\ item(task, i).at = "in_flight"
    /\ \E c \in CloudContentPool : \E cost \in CostPool :
           LET r == ocr_page_result(c)
           IN  /\ spent' = spent + cost
               /\ task' = [task EXCEPT ![i + 1] =
                              [at |-> "returned", text |-> r.text, page_num |-> r.page_number]]
    /\ applied' = [applied EXCEPT ![i + 1] = @ \o SanitizerStages]
    /\ semaphore' = semaphore + 1
    /\ done_order' = Append(done_order, i)
    /\ UNCHANGED <<results, failed, cloud_pages, page_numbers, seq_idx, assembled, pc>>
    /\ CloudFrame

\* cli.py:147-148: the OCR call of process_one(i) raises
CallRaises(i) ==
    /\ pc \in {"seq_wait", "gather"}
    /\ item(task, i).at = "in_flight"
    /\ task' = [task EXCEPT ![i + 1].at = "returned"]
    /\ semaphore' = semaphore + 1
    /\ done_order' = Append(done_order, i)
    /\ UNCHANGED <<spent, results, failed, cloud_pages, page_numbers, seq_idx,
                   assembled, applied, pc>>
    /\ CloudFrame

\* cli.py:161-165: the sequential loop calls process_one for the next file
SeqCall ==
    /\ pc = "seq_loop"
    /\ seq_idx < n_files
    /\ ~exceeded(spent, budget)
    /\ task' = [task EXCEPT ![seq_idx + 1].at = "waiting"]
    /\ pc' = "seq_wait"
    /\ UNCHANGED <<spent, semaphore, done_order, results, failed, cloud_pages,
                   page_numbers, seq_idx, assembled, applied>>
    /\ CloudFrame

\* cli.py:165-173: process_one has returned to the sequential loop
SeqAppend ==
    /\ pc = "seq_wait"
    /\ item(task, seq_idx).at = "returned"
    /\ LET t == item(task, seq_idx)
       IN  IF t.text # None
           THEN /\ cloud_pages' = Append(cloud_pages, t.text)
                /\ page_numbers' = Append(page_numbers, t.page_num)
                /\ UNCHANGED failed
           ELSE /\ failed' = Append(failed, seq_idx + 1)
                /\ cloud_pages' = Append(cloud_pages, <<>>)
                /\ page_numbers' = Append(page_numbers, None)
    /\ task' = [task EXCEPT ![seq_idx + 1].at = "taken"]
    /\ done_order' = Tail(done_order)
    /\ seq_idx' = seq_idx + 1
    /\ pc' = "seq_loop"
    /\ UNCHANGED <<spent, semaphore, results, assembled, applied>>
    /\ CloudFrame

\* cli.py:162-164 and 188-193: the sequential loop ends, at the last file or
\* at the first file reached with the budget exceeded, and assemble is called
AssembleSequential ==
    /\ pc = "seq_loop"
    /\ seq_idx = n_files \/ exceeded(spent, budget)
    /\ assembled' = [pages |-> cloud_pages, page_numbers |-> page_numbers]
    /\ pc' = "assembled_cloud"
    /\ UNCHANGED <<spent, semaphore, task, done_order, results, failed, cloud_pages,
                   page_numbers, seq_idx, applied>>
    /\ CloudFrame

\* cli.py:176-178: the calls are made and scheduled
SpawnTasks ==
    /\ pc = "spawn"
    /\ task' = [k \in 1..n_files |-> [NewTask EXCEPT !.at = "waiting"]]
    /\ results' = [k \in 1..n_files |-> <<None, None>>]
    /\ pc' = "gather"
    /\ UNCHANGED <<spent, semaphore, done_order, failed, cloud_pages, page_numbers,
                   seq_idx, assembled, applied>>
    /\ CloudFrame

\* cli.py:178-184: asyncio.as_completed hands over the next call that returned
Collect ==
    /\ pc = "gather"
    /\ done_order # <<>>
    /\ LET i == Head(done_order)
           t == item(task, i)
       IN  /\ IF t.text # None
              THEN /\ results' = store_result(results, i, t.text, t.page_num)
                   /\ UNCHANGED failed
              ELSE /\ failed' = Append(failed, i + 1)
                   /\ UNCHANGED results
           /\ task' = [task EXCEPT ![i + 1].at = "taken"]
    /\ done_order' = Tail(done_order)
    /\ UNCHANGED <<spent, semaphore, cloud_pages, page_numbers, seq_idx, assembled,
                   applied, pc>>
    /\ CloudFrame

\* cli.py:185-193: every call was handed over; the lists are built from
\* `results` and assemble is called
AssembleConcurrent ==
    /\ pc = "gather"
    /\ \A i \in FileIdx : item(task, i).at = "taken"
    /\ LET pgs  == [k \in 1..Len(results) |->
                       IF results[k][1] # None THEN results[k][1] ELSE <<>>]
           nums == [k \in 1..Len(results) |-> results[k][2]]
       IN  /\ cloud_pages' = pgs
           /\ page_numbers' = nums
           /\ assembled' = [pages |-> pgs, page_numbers |-> nums]
    /\ pc' = "assembled_cloud"
    /\ UNCHANGED <<spent, semaphore, task, done_order, results, failed, seq_idx, applied>>
    /\ CloudFrame

NextCloud ==
    \/ \E i \in FileIdx : Acquire(i)
    \/ \E i \in FileIdx : CallReturns(i)
    \/ \E i \in FileIdx : CallRaises(i)
    \/ SeqCall
    \/ SeqAppend
    \/ AssembleSequential
    \/ SpawnTasks
    \/ Collect
    \/ AssembleConcurrent

SpecCloud == InitCloud /\ [][NextCloud]_vars

----------------------------------------------------------------------------
(* cli.py: _process_local                                                  *)

\* header_stripper.py:4: the default of min_consecutive, which cli.py:224 uses
min_consecutive_default == 3

\* what the local OCR may return for a page: a running header in three
\* spellings over a section line, a body line and a chapter line
LocalSection == <<"A", " ", "b", "\n", "4", ".", "1", " ", "T", "t">>
LocalBody    == <<"a", " ", "\t", "B", "\n", "x">>
LocalChapter == <<"a", " ", "b", "\n", "4", " ", "T", "t", "a">>

LocalPagePool == {LocalSection, LocalBody, LocalChapter}

\* cli.py:201
InitLocal ==
    /\ n_files \in 0..MaxFiles
    /\ pages = <<>>
    /\ min_consecutive = min_consecutive_default
    /\ header_lines = None
    /\ footer_lines = None
    /\ result = None
    /\ structured = <<>>
    /\ assembled = None
    /\ applied = [k \in 1..n_files |-> <<>>]
    /\ pc = "ocr_local"
    /\ text = <<>>
    /\ out = <<>>
    /\ SanIdle
    /\ RetryIdle
    /\ workers = 0
    /\ budget = 0
    /\ spent = 0
    /\ semaphore = 0
    /\ task = <<>>
    /\ done_order = <<>>
    /\ results = <<>>
    /\ failed = <<>>
    /\ cloud_pages = <<>>
    /\ page_numbers = <<>>
    /\ seq_idx = 0

\* what the actions of _process_local leave alone
LocalFrame ==
    UNCHANGED <<min_consecutive, text, out, sanVars, cloudVars, n_files, retryVars>>

\* cli.py:211-220: one file of the OCR loop; a page whose OCR raises is ""
OcrLocalPage ==
    /\ pc = "ocr_local"
    /\ Len(pages) < n_files
    /\ \E t \in LocalPagePool \cup {<<>>} : pages' = Append(pages, t)
    /\ UNCHANGED <<header_lines, footer_lines, result, structured, assembled, applied, pc>>
    /\ LocalFrame

\* as StripLocal, run as soon as a page is there
StripLocal_before_last_page ==
    /\ pc = "ocr_local"
    /\ Len(pages) >= 1
    /\ LET r == strip_headers(pages, min_consecutive)
       IN  /\ header_lines' = r.header_lines
           /\ footer_lines' = r.footer_lines
           /\ result' = r.result
    /\ applied' = [k \in 1..n_files |->
                      IF k <= Len(pages) THEN Append(applied[k], "strip_headers")
                      ELSE applied[k]]
    /\ pc' = "parse_local"
    /\ UNCHANGED <<pages, structured, assembled>>
    /\ LocalFrame

\* cli.py:224: cleaned = strip_headers(raw_pages), after the OCR loop
StripLocal ==
    /\ pc = "ocr_local"
    /\ Len(pages) = n_files
    /\ LET r == strip_headers(pages, min_consecutive)
       IN  /\ header_lines' = r.header_lines
           /\ footer_lines' = r.footer_lines
           /\ result' = r.result
    /\ applied' = [k \in 1..n_files |-> Append(applied[k], "strip_headers")]
    /\ pc' = "parse_local"
    /\ UNCHANGED <<pages, structured, assembled>>
    /\ LocalFrame

\* cli.py:228: one page of [parse_structure(page) for page in cleaned]
ParsePage ==
    /\ pc = "parse_local"
    /\ Len(structured) < Len(result)
    /\ structured' = Append(structured, parse_structure(result[Len(structured) + 1]))
    /\ applied' = [applied EXCEPT ![Len(structured) + 1] = Append(@, "parse_structure")]
    /\ UNCHANGED <<pages, header_lines, footer_lines, result, assembled, pc>>
    /\ LocalFrame

\* cli.py:230-231: assemble(structured, ...), without page numbers
AssembleLocal ==
    /\ pc = "parse_local"
    /\ Len(structured) = Len(result)
    /\ assembled' = [pages |-> structured, page_numbers |-> None]
    /\ pc' = "assembled_local"
    /\ UNCHANGED <<pages, header_lines, footer_lines, result, structured, applied>>
    /\ LocalFrame

NextLocal == OcrLocalPage \/ StripLocal \/ ParsePage \/ AssembleLocal

SpecLocal == InitLocal /\ [][NextLocal]_vars

\* cli.py:96-117: main runs one of the two modes
InitModes == InitLocal \/ InitCloud

NextModes == NextLocal \/ NextCloud

SpecModes == InitModes /\ [][NextModes]_vars

----------------------------------------------------------------------------
(* ocr_cloud.py: the retry loop of ocr_page                                *)

\* ocr_cloud.py:47-48 (BASE_DELAY is the float 2.0; every delay computed from
\* it is a whole number of seconds)
MAX_RETRIES == 3
BASE_DELAY == 2

\* ocr_cloud.py:124: the exceptions the except clause names.  HTTPStatusError
\* comes from response.raise_for_status(), ReadTimeout from client.post, and
\* KeyError from data["choices"][0]["message"]["content"]
RetryableErrors == {"HTTPStatusError", "ReadTimeout", "KeyError"}

\* exceptions of the same three statements that the except clause does not
\* name: the connection fails, "choices" is an empty list
OtherErrors == {"ConnectError", "IndexError"}

\* the exception e as the outcome of the call, where None may stand as well
Raised(e) == <<"raise", e>>

\* as retry_delay, without the doubling
retry_delay_fixed(a) == BASE_DELAY

\* ocr_cloud.py:127  delay = BASE_DELAY * (2**attempt)
retry_delay(a) == BASE_DELAY * (2 ^ a)

\* ocr_cloud.py:125  if attempt == MAX_RETRIES - 1
is_last_attempt(a) == a = MAX_RETRIES - 1

\* ocr_cloud.py:75-99: the call has built its payload and enters the loop
InitRetry ==
    /\ attempt = 0
    /\ requests = 0
    /\ errors = <<>>
    /\ sleeps = <<>>
    /\ ocr_return = None
    /\ raised = None
    /\ pc = "attempt"
    /\ pages = <<>>
    /\ min_consecutive = 1
    /\ header_lines = None
    /\ footer_lines = None
    /\ result = None
    /\ text = <<>>
    /\ out = <<>>
    /\ SanIdle
    /\ ModeIdle

\* what the actions of the retry loop leave alone
RetryFrame ==
    UNCHANGED <<pages, min_consecutive, header_lines, footer_lines, result, text, out,
                sanVars, cloudVars, modeVars>>

\* ocr_cloud.py:101-106: the loop body starts and awaits client.post
Post ==
    /\ pc = "attempt"
    /\ attempt < MAX_RETRIES
    /\ requests' = requests + 1
    /\ pc' = "awaiting"
    /\ UNCHANGED <<attempt, errors, sleeps, ocr_return, raised>>
    /\ RetryFrame

\* ocr_cloud.py:104-122: the response arrives, carries the content, and the
\* call returns (text, cost, page_number)
Responds ==
    /\ pc = "awaiting"
    /\ \E c \in CloudContentPool, cost \in CostPool :
        ocr_return' = <<ocr_page_result(c).text, cost, ocr_page_result(c).page_number>>
    /\ pc' = "returned"
    /\ UNCHANGED <<attempt, requests, errors, sleeps, raised>>
    /\ RetryFrame

\* ocr_cloud.py:124-128: one of the named exceptions is caught; the last
\* attempt re-raises it, an earlier one computes the delay and awaits the sleep
Fails ==
    /\ pc = "awaiting"
    /\ \E e \in RetryableErrors :
        /\ errors' = Append(errors, e)
        /\ IF is_last_attempt(attempt)
           THEN /\ raised' = Raised(e)
                /\ pc' = "raised"
                /\ UNCHANGED sleeps
           ELSE /\ sleeps' = Append(sleeps, retry_delay(attempt))
                /\ pc' = "sleeping"
                /\ UNCHANGED raised
    /\ UNCHANGED <<attempt, requests, ocr_return>>
    /\ RetryFrame

\* ocr_cloud.py:102-124: an exception the except clause does not name leaves
\* the call
Propagates ==
    /\ pc = "awaiting"
    /\ \E e \in OtherErrors : raised' = Raised(e)
    /\ pc' = "raised"
    /\ UNCHANGED <<attempt, requests, errors, sleeps, ocr_return>>
    /\ RetryFrame

\* ocr_cloud.py:128, 101 and 131: asyncio.sleep returns and the for loop takes
\* the next value of range(MAX_RETRIES), or runs out of them
Wakes ==
    /\ pc = "sleeping"
    /\ attempt' = attempt + 1
    /\ IF attempt + 1 < MAX_RETRIES
       THEN /\ pc' = "attempt"
            /\ UNCHANGED raised
       ELSE /\ pc' = "raised"
            /\ raised' = Raised("RuntimeError")
    /\ UNCHANGED <<requests, errors, sleeps, ocr_return>>
    /\ RetryFrame

NextRetry == Post \/ Responds \/ Fails \/ Propagates \/ Wakes

\* The request is made with timeout=120.0 and asyncio.sleep(delay) has a finite
\* delay, so every await of the loop ends: a step that can be taken is taken.
SpecRetry == InitRetry /\ [][NextRetry]_vars /\ WF_vars(NextRetry)

----------------------------------------------------------------------------
(* Properties of strip_headers.  What a run is, is stated here from the    *)
(* pages alone, without the loop of _find_repeating_lines.                 *)

NumPages == Len(pages)
PageIdx == 0 .. (NumPages - 1)

\* strip_headers went past its early return
Detected == pc = "stripped" /\ NumPages >= min_consecutive

\* the four probes: <<position, offset>>
Probes == {<<"top", 0>>, <<"top", 1>>, <<"bottom", 0>>, <<"bottom", 1>>}

LinesOf(p) == split(item(pages, p), "\n")

\* the index a probe reads on page p, from that page's own line count
ProbeIndex(pr, p) ==
    IF pr[1] = "top" THEN pr[2] ELSE Len(LinesOf(p)) - 1 - pr[2]

InRange(pr, p) == ProbeIndex(pr, p) >= 0 /\ ProbeIndex(pr, p) < Len(LinesOf(p))

ProbedLine(pr, p) == item(LinesOf(p), ProbeIndex(pr, p))

\* empty or whitespace only
IsBlank(s) == \A k \in 1..Len(s) : s[k] \in Whitespace

LowerCaseOf(c) ==
    CASE c = "A" -> "a"
      [] c = "B" -> "b"
      [] c = "C" -> "c"
      [] c = "F" -> "f"
      [] c = "T" -> "t"
      [] c = "X" -> "x"
      [] c = "U+00C9" -> "U+00E9"
      [] OTHER -> c

\* lowercased, every whitespace run collapsed to one space
RECURSIVE Squeezed(_)
Squeezed(s) ==
    IF s = <<>> THEN <<>>
    ELSE IF s[1] \in Whitespace
    THEN IF Len(s) >= 2 /\ s[2] \in Whitespace
         THEN Squeezed(Tail(s))
         ELSE <<" ">> \o Squeezed(Tail(s))
    ELSE <<LowerCaseOf(s[1])>> \o Squeezed(Tail(s))

\* ... and both ends trimmed
NormalForm(s) ==
    LET q  == Squeezed(s)
        q1 == IF q # <<>> /\ q[1] = " " THEN Tail(q) ELSE q
    IN  IF q1 # <<>> /\ q1[Len(q1)] = " " THEN SubSeq(q1, 1, Len(q1) - 1) ELSE q1

\* what probe pr finds on page p: the index it reads, computed from the
\* page's own line count, and the normalized line there (None when the index
\* is out of range or the line is blank)
ProbeOf(pr, p) ==
    [idx |-> ProbeIndex(pr, p),
     key |-> IF InRange(pr, p) /\ ~IsBlank(ProbedLine(pr, p))
             THEN NormalForm(ProbedLine(pr, p))
             ELSE None]

\* ProbeOf for every probe and page of the call
ProbeTable == [pr \in Probes |-> [p \in PageIdx |-> ProbeOf(pr, p)]]

\* page p can be part of a run at probe pr
Live(T, pr, p) == T[pr][p].key # None

\* a run breaker at probe pr: out of range, or blank
Breaker(T, pr, p) == T[pr][p].key = None

\* pages a..b all carry the same non-blank line at probe pr
SameRun(T, pr, a, b) ==
    \A p \in a..b : Live(T, pr, p) /\ T[pr][p].key = T[pr][a].key

MaximalRun(T, pr, a, b) ==
    /\ a <= b
    /\ SameRun(T, pr, a, b)
    /\ a = 0 \/ ~SameRun(T, pr, a - 1, b)
    /\ b = NumPages - 1 \/ ~SameRun(T, pr, a, b + 1)

\* page p lies in a run of at least min_consecutive pages at probe pr
Qualifies(T, pr, p) ==
    \E a \in PageIdx : \E b \in PageIdx :
        /\ a <= p /\ p <= b
        /\ b - a + 1 >= min_consecutive
        /\ SameRun(T, pr, a, b)

\* the detector marked the line that probe pr reads on page p
Marked(T, pr, p) ==
    IF pr[1] = "top"
    THEN T[pr][p].idx \in header_lines[p]
    ELSE T[pr][p].idx \in footer_lines[p]

\* line k of page p is slated for deletion
Deleted(p, k) == k \in (header_lines[p] \cup footer_lines[p])

\* C1: minimum-run boundary.  A non-blank line that repeats at one probe on
\* exactly min_consecutive adjacent pages is removed from all of them; one
\* that repeats on only min_consecutive - 1 adjacent pages, and is in no
\* qualifying run at another probe, is removed from none of them.
C1_MinimumRunBoundary ==
    Detected =>
        \A T \in {ProbeTable} :
            \A pr \in Probes : \A a \in PageIdx : \A b \in PageIdx :
                MaximalRun(T, pr, a, b) =>
                    /\ (b - a + 1 = min_consecutive) =>
                           \A p \in a..b : Marked(T, pr, p) /\ Deleted(p, T[pr][p].idx)
                    /\ (b - a + 1 = min_consecutive - 1) =>
                           \A p \in a..b :
                               (\A other \in Probes \ {pr} :
                                   ~(T[other][p].idx = T[pr][p].idx /\ Qualifies(T, other, p)))
                               => ~Deleted(p, T[pr][p].idx)

\* a run of exactly min_consecutive >= 2 pages and a run one page short of
\* it, in the same call
C1_Witness ==
    /\ Detected
    /\ min_consecutive >= 2
    /\ \E T \in {ProbeTable} :
           /\ \E pr \in Probes : \E a \in PageIdx : \E b \in PageIdx :
                  /\ MaximalRun(T, pr, a, b) /\ b - a + 1 = min_consecutive
                  /\ \A p \in a..b : Deleted(p, T[pr][p].idx)
           /\ \E pr \in Probes : \E a \in PageIdx : \E b \in PageIdx :
                  /\ MaximalRun(T, pr, a, b) /\ b - a + 1 = min_consecutive - 1
                  /\ \A p \in a..b : ~Deleted(p, T[pr][p].idx)

\* the pages of the blank-line example and what the spec says comes out
BreakerExampleIn  == << <<"X">>, <<"X">>, <<>>, <<"X">>, <<"X">>, <<"X">> >>
BreakerExampleOut == << <<"X">>, <<"X">>, <<>>, <<>>, <<>>, <<>> >>

\* C2: run breakers.  At any probe a page whose probed line is blank or out
\* of range is never part of a run and separates the runs before and after
\* it: a marked page always lies in a window of at least min_consecutive
\* adjacent pages that holds no breaker.  The call completes with one page
\* per input page, and the blank-line example comes out as stated.
C2_RunBreakers ==
    /\ Detected =>
           \A T \in {ProbeTable} :
               /\ Len(result) = NumPages
               /\ \A pr \in Probes : \A p \in PageIdx :
                      /\ Breaker(T, pr, p) => ~Marked(T, pr, p)
                      /\ Marked(T, pr, p) =>
                             \E a \in PageIdx : \E b \in PageIdx :
                                 /\ a <= p /\ p <= b
                                 /\ b - a + 1 >= min_consecutive
                                 /\ \A q \in a..b : ~Breaker(T, pr, q)
    /\ (pc = "stripped" /\ pages = BreakerExampleIn /\ min_consecutive = 3)
           => result = BreakerExampleOut

\* a breaker between two runs of the same line that together, but not each,
\* reach min_consecutive: nothing before it is marked
C2_Witness ==
    /\ Detected
    /\ min_consecutive >= 2
    /\ \E T \in {ProbeTable} :
           \E pr \in Probes : \E p \in PageIdx :
               /\ p >= 1 /\ p + 1 < NumPages
               /\ Breaker(T, pr, p)
               /\ SameRun(T, pr, 0, p - 1)
               /\ T[pr][p + 1].key = T[pr][0].key
               /\ p < min_consecutive
               /\ NumPages - 1 >= min_consecutive
               /\ ~Marked(T, pr, 0)

\* line k of page p must go: it is the probed line of a qualifying run
ShouldDelete(T, p, k) ==
    \E pr \in Probes : T[pr][p].idx = k /\ Qualifies(T, pr, p)

\* the lines of page p that must stay, in their original order
Surviving(T, p) ==
    LET ls   == LinesOf(p)
        keep == SelectSeq([k \in 1..Len(ls) |-> k - 1], LAMBDA k : ~ShouldDelete(T, p, k))
    IN  [k \in 1..Len(keep) |-> item(ls, keep[k])]

\* C3: exact removal set.  With at least min_consecutive pages the output
\* has one page per input page; line k of page p is deleted if and only if
\* it is the probed line of a run of at least min_consecutive pages; the
\* other lines are kept in order, rejoined, and the page is trimmed.
C3_ExactRemovalSet ==
    Detected =>
        \A T \in {ProbeTable} :
            /\ Len(result) = NumPages
            /\ \A p \in PageIdx :
                   /\ (header_lines[p] \cup footer_lines[p]) \subseteq 0 .. (Len(LinesOf(p)) - 1)
                   /\ \A k \in 0 .. (Len(LinesOf(p)) - 1) : Deleted(p, k) <=> ShouldDelete(T, p, k)
                   /\ item(result, p) = strip(join(<<"\n">>, Surviving(T, p)))

\* a page that loses a header and a footer line, keeps an unprobed middle
\* line, and is trimmed of a blank line the removal left at its top; and two
\* pages of different length that lose their last line
C3_Witness ==
    /\ Detected
    /\ \E T \in {ProbeTable} :
           \E p \in PageIdx :
               /\ Len(LinesOf(p)) = 5
               /\ Deleted(p, 0) /\ Deleted(p, 4) /\ ~Deleted(p, 2)
               /\ item(result, p) # join(<<"\n">>, Surviving(T, p))
    /\ \E p \in PageIdx : \E q \in PageIdx :
           /\ Len(LinesOf(p)) # Len(LinesOf(q))
           /\ Deleted(p, Len(LinesOf(p)) - 1)
           /\ Deleted(q, Len(LinesOf(q)) - 1)

\* C4: with fewer pages than min_consecutive the input is returned as it
\* is: same pages, nothing removed, nothing trimmed.
C4_FewPagesUnchanged ==
    (pc = "stripped" /\ NumPages < min_consecutive) => result = pages

\* fewer pages than min_consecutive, one of which trimming would change
C4_Witness ==
    /\ pc = "stripped"
    /\ NumPages < min_consecutive
    /\ NumPages >= 2
    /\ \E p \in PageIdx : strip(item(pages, p)) # item(pages, p)
    /\ result = pages

\* C5: lines are compared by their normalized value only.  At every probe
\* a page is marked exactly when it lies in a window of at least
\* min_consecutive adjacent pages whose probed lines are non-blank and equal
\* after lowercasing, collapsing whitespace runs and trimming.
C5_NormalizedComparison ==
    Detected =>
        \A T \in {ProbeTable} :
            \A pr \in Probes : \A p \in PageIdx : Marked(T, pr, p) <=> Qualifies(T, pr, p)

\* a marked run whose lines differ in case and in spacing, next to a page
\* whose line differs in a letter and is not joined to it
C5_Witness ==
    /\ Detected
    /\ min_consecutive >= 2
    /\ \E T \in {ProbeTable} :
           \E pr \in Probes : \E p \in PageIdx :
               /\ p + 2 < NumPages
               /\ Live(T, pr, p) /\ Live(T, pr, p + 1) /\ Live(T, pr, p + 2)
               /\ ProbedLine(pr, p) # ProbedLine(pr, p + 1)
               /\ lower(ProbedLine(pr, p)) # lower(ProbedLine(pr, p + 1))
               /\ Marked(T, pr, p) /\ Marked(T, pr, p + 1)
               /\ T[pr][p + 2].key # T[pr][p + 1].key
               /\ ~Marked(T, pr, p + 2)

----------------------------------------------------------------------------
(* Properties of parse_structure.  What a numbered line is, is stated here *)
(* from the line alone, without the patterns of SECTION_PATTERNS.          *)

\* parse_structure has returned at least once
Parsed == pc = "parse" /\ Len(out) >= 1

\* the non-empty lines of a text, in order
NonEmptyLines(txt) == SelectSeq(split(txt, "\n"), LAMBDA l : l # <<>>)

InLines == NonEmptyLines(text)
OutLines == NonEmptyLines(out[1])

\* the length of the longest prefix of l made of characters of C
LeadLen(l, C) ==
    CHOOSE n \in 0..Len(l) :
        /\ \A k \in 1..n : l[k] \in C
        /\ n = Len(l) \/ l[n + 1] \notin C

\* the digits and dots a line starts with
NumberOf(l) == SubSeq(l, 1, LeadLen(l, Digits \cup {"."}))

\* the number of dot-separated digit groups of a line's number; 0 when the
\* line starts with no digit group or the number is not of the form D(.D)*
GroupsOf(l) ==
    LET n == NumberOf(l)
    IN  IF /\ n # <<>>
           /\ n[1] \in Digits
           /\ n[Len(n)] \in Digits
           /\ \A k \in 1..(Len(n) - 1) : ~(n[k] = "." /\ n[k + 1] = ".")
        THEN 1 + Cardinality({k \in 1..Len(n) : n[k] = "."})
        ELSE 0

AfterNumber(l) == SubSeq(l, Len(NumberOf(l)) + 1, Len(l))

\* the blanks (space, tab) between the number and the title
SepLen(l) == LeadLen(AfterNumber(l), BlankChars)

\* the title as written: what follows those blanks
TitleOf(l) == SubSeq(AfterNumber(l), SepLen(l) + 1, Len(AfterNumber(l)))

\* the line is a number, whitespace and a title
NumberedLine(l) == GroupsOf(l) >= 1 /\ SepLen(l) >= 1 /\ TitleOf(l) # <<>>

\* the title of a heading: trimmed, emphasis markers taken out
CleanTitle(t) == replace2(strip(t), <<"*", "*">>, <<>>)

\* the heading of a given level for a numbered line
HeadingOf(level, l) ==
    [k \in 1..level |-> "#"] \o <<" ">> \o NumberOf(l) \o <<" ">> \o CleanTitle(TitleOf(l))

\* the text holds a run of four or more line breaks
HasLongGap(txt) ==
    \E k \in 1..(Len(txt) - 3) : \A j \in k..(k + 3) : txt[j] = "\n"

HasBold(l) == \E k \in 1..(Len(l) - 1) : l[k] = "*" /\ l[k + 1] = "*"

\* C6: idempotence.  parse_structure applied to its own output returns that
\* output: no heading is matched again, and no run of four or more line
\* breaks is left for the collapse.
C6_Idempotent ==
    Parsed =>
        /\ ~HasLongGap(out[1])
        /\ \A k \in 2..Len(out) : out[k] = out[1]

\* a second call on a text that the first call both rewrote into headings
\* and collapsed
C6_Witness ==
    /\ pc = "parse"
    /\ Len(out) >= 2
    /\ HasLongGap(text)
    /\ \E i \in 1..Len(InLines) : OutLines[i] = HeadingOf(3, InLines[i])
    /\ out[2] = out[1]

\* C7: heading precedence.  Every line is rewritten by at most one pattern:
\* a line of three digit groups, whitespace and a title becomes the level-4
\* heading of its number and title and nothing else, a line of two digit
\* groups the level-3 heading; a line that changes at all becomes the
\* heading whose level goes with its number of groups.
C7_HeadingPrecedence ==
    Parsed =>
        /\ Len(OutLines) = Len(InLines)
        /\ \A i \in 1..Len(InLines) :
               /\ (NumberedLine(InLines[i]) /\ GroupsOf(InLines[i]) = 3)
                      => OutLines[i] = HeadingOf(4, InLines[i])
               /\ (NumberedLine(InLines[i]) /\ GroupsOf(InLines[i]) = 2)
                      => OutLines[i] = HeadingOf(3, InLines[i])
               /\ OutLines[i] # InLines[i] =>
                      /\ GroupsOf(InLines[i]) \in 1..3
                      /\ OutLines[i] = HeadingOf(GroupsOf(InLines[i]) + 1, InLines[i])

\* one text with a three-group and a two-group line, each turned into the
\* heading of its own level
C7_Witness ==
    /\ Parsed
    /\ \E i \in 1..Len(InLines) : \E j \in 1..Len(InLines) :
           /\ GroupsOf(InLines[i]) = 3 /\ NumberedLine(InLines[i])
           /\ SubSeq(OutLines[i], 1, 6) = <<"#", "#", "#", "#", " ", "4">>
           /\ GroupsOf(InLines[j]) = 2 /\ NumberedLine(InLines[j])
           /\ SubSeq(OutLines[j], 1, 5) = <<"#", "#", "#", " ", "4">>

\* no line of the text starts with a digit
NoDigitLine(txt) ==
    \A k \in 1..Len(txt) : txt[k] \in Digits => (k > 1 /\ txt[k - 1] # "\n")

\* C8: start-of-line anchoring and pass-through.  Only a line whose first
\* character is a digit is ever rewritten, and a text in which no line
\* starts with a digit and no run of line breaks is long enough to be
\* collapsed is returned as it is.
C8_AnchoredPassThrough ==
    Parsed =>
        /\ Len(OutLines) = Len(InLines)
        /\ \A i \in 1..Len(InLines) :
               OutLines[i] # InLines[i] => InLines[i][1] \in Digits
        /\ (NoDigitLine(text) /\ ~HasLongGap(text)) => out[1] = text

\* a text that names a section number in the middle of one line and after
\* an indent in another, returned unchanged
C8_Witness ==
    /\ Parsed
    /\ NoDigitLine(text) /\ ~HasLongGap(text)
    /\ Len(InLines) = 2
    /\ \A i \in 1..2 : \E k \in 2..Len(InLines[i]) : InLines[i][k] \in Digits
    /\ InLines[1][1] # " " /\ InLines[2][1] = " "
    /\ out[1] = text

\* an uppercase letter, accented Latin capitals included
UppercaseLetter(c) == c \in AsciiUpper \cup {"U+00C9"}

\* C9: the chapter rule.  A line that starts with a bare digit group becomes
\* the level-2 heading of its number and title if and only if the digit
\* group is followed by whitespace and a title of at least 3 characters that
\* begins with an uppercase letter; otherwise it is left unchanged.
C9_ChapterRule ==
    Parsed =>
        \A i \in 1..Len(InLines) :
            GroupsOf(InLines[i]) = 1 =>
                IF /\ SepLen(InLines[i]) >= 1
                   /\ Len(TitleOf(InLines[i])) >= 3
                   /\ UppercaseLetter(TitleOf(InLines[i])[1])
                THEN OutLines[i] = HeadingOf(2, InLines[i])
                ELSE OutLines[i] = InLines[i]

\* the title is wrapped in emphasis markers
BoldWrapped(t) ==
    /\ Len(t) >= 5
    /\ SubSeq(t, 1, 2) = <<"*", "*">>
    /\ SubSeq(t, Len(t) - 1, Len(t)) = <<"*", "*">>

\* C10: no emitted heading is bolded.  A line rewritten into a heading holds
\* no "**", and a numbered line whose title is wrapped in "**" becomes the
\* heading of its level with the markers removed.
C10_HeadingsNotBold ==
    Parsed =>
        \A i \in 1..Len(InLines) :
            /\ OutLines[i] # InLines[i] => ~HasBold(OutLines[i])
            /\ (NumberedLine(InLines[i]) /\ GroupsOf(InLines[i]) \in 1..3
                    /\ BoldWrapped(TitleOf(InLines[i])))
                   => OutLines[i] = HeadingOf(GroupsOf(InLines[i]) + 1, InLines[i])

\* the maximal runs of line breaks of a text, in order: where each starts
\* and how long it is
RECURSIVE RunsFrom(_, _)
RunsFrom(txt, i) ==
    IF i > Len(txt) THEN <<>>
    ELSE IF txt[i] # "\n" THEN RunsFrom(txt, i + 1)
    ELSE LET n == CHOOSE n \in 1..(Len(txt) - i + 1) :
                      /\ \A k \in i..(i + n - 1) : txt[k] = "\n"
                      /\ i + n > Len(txt) \/ txt[i + n] # "\n"
         IN  <<[start |-> i, len |-> n]>> \o RunsFrom(txt, i + n)

NewlineRuns(txt) == RunsFrom(txt, 1)

\* the run lies between two lines of text
Interior(txt, r) == r.start > 1 /\ r.start + r.len - 1 < Len(txt)

\* the number of blank lines a run between two lines of text stands for
BlankLines(r) == r.len - 1

\* C11 as stated: between two lines of text a run of 4 or more blank lines
\* comes out as exactly 2 blank lines (3 line breaks), and a run of 1, 2 or 3
\* blank lines comes out unchanged.
C11_BlankLineCollapse ==
    Parsed =>
        \A rin \in {NewlineRuns(text)} : \A rout \in {NewlineRuns(out[1])} :
            /\ Len(rout) = Len(rin)
            /\ \A j \in 1..Len(rin) :
                   Interior(text, rin[j]) =>
                       /\ BlankLines(rin[j]) >= 4 => rout[j].len = 3
                       /\ BlankLines(rin[j]) \in 1..3 => rout[j].len = rin[j].len

\* C11, amended: every maximal run of 4 or more line breaks (3 or more blank
\* lines between two lines of text) comes out as exactly 3 line breaks
\* (2 blank lines), every run of 1, 2 or 3 line breaks comes out unchanged,
\* and no run is added or removed.
C11_NewlineRunCollapse ==
    Parsed =>
        \A rin \in {NewlineRuns(text)} : \A rout \in {NewlineRuns(out[1])} :
            /\ Len(rout) = Len(rin)
            /\ \A j \in 1..Len(rin) :
                   /\ rin[j].len >= 4 => rout[j].len = 3
                   /\ rin[j].len \in 1..3 => rout[j].len = rin[j].len

\* 3 blank lines between two lines of text (4 line breaks) come out as 2,
\* next to a heading that was rewritten in the same call
C11_Witness ==
    /\ Parsed
    /\ \E rin \in {NewlineRuns(text)} : \E rout \in {NewlineRuns(out[1])} :
           \E j \in 1..Len(rin) :
               /\ Interior(text, rin[j])
               /\ rin[j].len = 4
               /\ rout[j].len = 3
    /\ \E i \in 1..Len(InLines) : OutLines[i] # InLines[i]


----------------------------------------------------------------------------
(* Properties of the repairs in ocr_page.  What a marker line, a run and a *)
(* fence are, is stated here from the text alone.                          *)

\* _extract_page_number has returned: `collapsed` went in, `cleaned` and
\* `page_number` came out
Extracted == pc = "sanitized"

\* the index of the first line break of a text, 0 when it has none
FirstBreak(txt) ==
    IF \E k \in 1..Len(txt) : txt[k] = "\n"
    THEN CHOOSE k \in 1..Len(txt) : txt[k] = "\n" /\ \A j \in 1..(k - 1) : txt[j] # "\n"
    ELSE 0

FirstLineOf(txt) ==
    IF FirstBreak(txt) = 0 THEN txt ELSE SubSeq(txt, 1, FirstBreak(txt) - 1)

\* what follows the first line and its line break
RestOf(txt) ==
    IF FirstBreak(txt) = 0 THEN <<>> ELSE SubSeq(txt, FirstBreak(txt) + 1, Len(txt))

\* the same letter, in either case
SameLetter(c, d) ==
    \/ c = d
    \/ {c, d} \in {{"p", "P"}, {"a", "A"}, {"g", "G"}, {"e", "E"}, {"n", "N"}, {"o", "O"}}

SameWord(w, v) == Len(w) = Len(v) /\ \A k \in 1..Len(w) : SameLetter(w[k], v[k])

\* what stands between "[page:" and "]" on a line of that form
MarkerValue(l) == SubSeq(l, 7, Len(l) - 1)

\* the line is '[page:<digits>]'
DigitsMarker(l) ==
    /\ Len(l) >= 8
    /\ SameWord(SubSeq(l, 1, 6), <<"[", "p", "a", "g", "e", ":">>)
    /\ l[Len(l)] = "]"
    /\ \A k \in 7..(Len(l) - 1) : l[k] \in Digits

\* the line is '[page:none]'
NoneMarker(l) ==
    SameWord(l, <<"[", "p", "a", "g", "e", ":", "n", "o", "n", "e", "]">>)

DigitValueOf(c) ==
    CASE c = "0" -> 0 [] c = "1" -> 1 [] c = "2" -> 2 [] c = "3" -> 3 [] c = "4" -> 4
      [] c = "5" -> 5 [] c = "6" -> 6 [] c = "7" -> 7 [] c = "8" -> 8 [] c = "9" -> 9

\* the number a string of digits denotes, read from the left
RECURSIVE DecimalFrom(_, _, _)
DecimalFrom(d, k, acc) ==
    IF k > Len(d) THEN acc ELSE DecimalFrom(d, k + 1, 10 * acc + DigitValueOf(d[k]))

DecimalValue(d) == DecimalFrom(d, 1, 0)

\* what the extraction must return for a text whose first line is `first`
\* and whose remaining text is `rest`
MarkerResult(txt, first, rest) ==
    IF DigitsMarker(first)
    THEN [text |-> rest, page_number |-> IntValue(DecimalValue(MarkerValue(first)))]
    ELSE IF NoneMarker(first)
    THEN [text |-> rest, page_number |-> None]
    ELSE [text |-> txt, page_number |-> None]

Collapsed == pc \in {"marker", "sanitized"}

\* the maximal runs of equal characters of a line, in order: the character
\* and how many of it
RECURSIVE CharRunsFrom(_, _)
CharRunsFrom(l, i) ==
    IF i > Len(l) THEN <<>>
    ELSE LET n == CHOOSE n \in 1..(Len(l) - i + 1) :
                      /\ i + n > Len(l) \/ l[i + n] # l[i]
                      /\ \A k \in i..(i + n - 1) : l[k] = l[i]
         IN  <<[ch |-> l[i], len |-> n]>> \o CharRunsFrom(l, i + n)

CharRuns(l) == CharRunsFrom(l, 1)

RunawayChars == {"-", "=", "_"}

\* a run as the collapse must leave it
Shortened(r) ==
    IF r.ch \in RunawayChars /\ r.len >= 4 THEN [ch |-> r.ch, len |-> 3] ELSE r

\* C13: the lines come out in the same number and order; a line of more than
\* 500 characters has every maximal run of 4 or more "-", "=" or "_" cut to
\* exactly 3 and nothing else changed; a line of 500 characters or fewer
\* comes out as it went in.
C13_RunawayCollapse ==
    Collapsed =>
        \A lin \in {split(unfenced, "\n")} : \A lout \in {split(collapsed, "\n")} :
            /\ Len(lout) = Len(lin)
            /\ \A k \in 1..Len(lin) :
                   IF Len(lin[k]) > 500
                   THEN \A rin \in {CharRuns(lin[k])} :
                            CharRuns(lout[k]) = [j \in 1..Len(rin) |-> Shortened(rin[j])]
                   ELSE lout[k] = lin[k]

\* a line of 600 "-" that comes out as "---", followed by a line of exactly
\* 500 "-" that comes out untouched
C13_Witness ==
    /\ Collapsed
    /\ \E lin \in {split(unfenced, "\n")} : \E lout \in {split(collapsed, "\n")} :
           /\ Len(lin) = 2
           /\ Len(lin[1]) = 600 /\ \A k \in 1..600 : lin[1][k] = "-"
           /\ lout[1] = <<"-", "-", "-">>
           /\ Len(lin[2]) = 500 /\ \A k \in 1..500 : lin[2][k] = "-"
           /\ lout[2] = lin[2]

\* _strip_code_fences has returned: `content` went in, `unfenced` came out
Unfenced == pc \in {"runaway", "marker", "sanitized"}

\* the letters a language tag is written in
TagChars ==
    {"a", "b", "c", "d", "e", "f", "g", "h", "i", "j", "k", "l", "m",
     "n", "o", "p", "q", "r", "s", "t", "u", "v", "w", "x", "y", "z"}

\* the length of the language tag that follows an opening fence: the letters
\* that fill the rest of the fence's line
TagLen(t) ==
    LET n == LeadLen(SubSeq(t, 4, Len(t)), TagChars)
    IN  IF 3 + n = Len(t) \/ t[4 + n] = "\n" THEN n ELSE 0

\* the text without its opening fence and tag, if it begins with one
WithoutOpener(t) ==
    IF Len(t) >= 3 /\ \A k \in 1..3 : t[k] = "U+0060"
    THEN SubSeq(t, 4 + TagLen(t), Len(t))
    ELSE t

\* the text without its closing fence, if it ends with one
WithoutCloser(t) ==
    IF Len(t) >= 3 /\ \A k \in (Len(t) - 2)..Len(t) : t[k] = "U+0060"
    THEN SubSeq(t, 1, Len(t) - 3)
    ELSE t

\* C14: the text is trimmed; an opening fence at its start is removed
\* together with its language tag, if it has one; then a closing fence at its
\* end is removed; the result is trimmed.  A text with no fence at either end
\* comes out trimmed and otherwise unchanged.
C14_FenceStripping ==
    Unfenced => unfenced = strip(WithoutCloser(WithoutOpener(strip(content))))

----------------------------------------------------------------------------
(* Properties of the two processing modes                                  *)

LocalMode == pc \in {"ocr_local", "parse_local", "assembled_local"}
CloudMode == pc \in {"spawn", "gather", "seq_loop", "seq_wait", "assembled_cloud"}

\* assemble was called
Assembled == pc \in {"assembled_local", "assembled_cloud"}

\* the stages by the functions that carry them out
Sanitizer == <<"_strip_code_fences", "_collapse_runaway_lines", "_extract_page_number">>
RepetitionDetector == <<"strip_headers">>
StructureInferencer == <<"parse_structure">>

IsPrefix(a, b) == Len(a) <= Len(b) /\ SubSeq(b, 1, Len(a)) = a

\* file k (counted from 1) was extracted: its OCR call returned a text
ExtractedPage(k) == LocalMode \/ task[k].text # None

InFlight == {i \in FileIdx : item(task, i).at = "in_flight"}

\* what assemble must get for file i: the text and page number its call
\* returned, or the placeholder
EntryOf(i) ==
    IF item(task, i).text # None
    THEN <<item(task, i).text, item(task, i).page_num>>
    ELSE <<<<>>, None>>

\* entry i of the lists handed to assemble
HandedEntry(i) == <<item(assembled.pages, i), item(assembled.page_numbers, i)>>

\* C17 as stated: never more than `workers` calls in flight; the two lists
\* handed to assemble have one entry per file, entry i is what the call for
\* file i returned, and a file that failed or was skipped has "" and no
\* page number.
C17_IndexAlignment ==
    CloudMode =>
        /\ Cardinality(InFlight) <= workers
        /\ Assembled =>
               /\ Len(assembled.pages) = n_files
               /\ Len(assembled.page_numbers) = n_files
               /\ \A i \in FileIdx : HandedEntry(i) = EntryOf(i)

\* the number of entries assemble got
Handed == Len(assembled.pages)

\* C17, amended: as stated, except that sequential processing (workers = 1)
\* stops at the first file it reaches with the budget exceeded: the lists
\* then hold one entry for each file before that one, and no call was made
\* for the others.
C17_AlignedPrefix ==
    CloudMode =>
        /\ Cardinality(InFlight) <= workers
        /\ Assembled =>
               /\ Len(assembled.page_numbers) = Handed
               /\ Handed <= n_files
               /\ \A i \in range(0, Handed) : HandedEntry(i) = EntryOf(i)
               /\ Handed < n_files =>
                      /\ workers = 1
                      /\ exceeded(spent, budget)
                      /\ \A i \in range(Handed, n_files) : item(task, i).at = "new"
               /\ \A i \in range(0, Handed) : item(task, i).at = "taken"

\* three files and two workers: the call for the last file failed first, the
\* call for the first file was skipped for the budget, and the file between
\* them keeps its text and page number at its own index
C17_Witness ==
    /\ pc = "assembled_cloud"
    /\ workers = 2
    /\ n_files = 3
    /\ failed = <<3, 1>>
    /\ exceeded(spent, budget)
    /\ assembled.pages[1] = <<>> /\ assembled.pages[3] = <<>>
    /\ assembled.pages[2] # <<>>
    /\ assembled.page_numbers = <<None, IntValue(4), None>>

----------------------------------------------------------------------------
(* The empty string at every function                                      *)

\* the argument of the k-th call of parse_structure (k from 1)
ParseArgument(k) == IF k = 1 THEN text ELSE out[k - 1]

\* every page of the collection is the empty string
AllPagesEmpty == \A p \in PageIdx : item(pages, p) = <<>>

\* no line of any page is marked for removal
NothingMarked == \A p \in PageIdx : \A k \in 0..1 : ~Deleted(p, k)

\* C15: the empty string is a no-op input of every function.
\* _strip_code_fences, _collapse_runaway_lines and parse_structure return ""
\* for ""; _extract_page_number returns "" and no page number; strip_headers
\* returns "" for every empty page, and a collection of empty pages as it
\* is, with no line marked for removal.
C15_EmptyStringNoOp ==
    /\ (pc \in {"runaway", "marker", "sanitized"} /\ content = <<>>) => unfenced = <<>>
    /\ (pc \in {"marker", "sanitized"} /\ unfenced = <<>>) => collapsed = <<>>
    /\ (pc = "sanitized" /\ collapsed = <<>>) => (cleaned = <<>> /\ page_number = None)
    /\ pc = "parse" =>
        \A k \in 1..Len(out) : ParseArgument(k) = <<>> => out[k] = <<>>
    /\ pc = "stripped" =>
        /\ Len(result) = NumPages
        /\ \A p \in PageIdx : item(pages, p) = <<>> => item(result, p) = <<>>
        /\ AllPagesEmpty => result = pages
        /\ (AllPagesEmpty /\ Detected) => NothingMarked

\* as many empty pages as a run needs, and more: all of them returned
C15_Witness ==
    /\ pc = "stripped"
    /\ NumPages > min_consecutive
    /\ min_consecutive >= 2
    /\ AllPagesEmpty
    /\ result = pages
    /\ NothingMarked

----------------------------------------------------------------------------
(* Properties of the retry loop of ocr_page                                *)

\* the call has ended, with a value or with an exception
Ended == pc \in {"returned", "raised"}

\* the number of attempts that have failed with an error the loop retries on
FailedAttempts == Len(errors)

\* the call has ended with an exception the loop does not retry on
RaisedOther == \E e \in OtherErrors : raised = Raised(e)

\* the waits the claim prescribes after the first and the second failure
PrescribedWaits == <<2, 4>>

\* what holds at every moment of a call
RetryDiscipline ==
    /\ requests <= 3
    /\ \A k \in 1..Len(sleeps) : k < 3 /\ sleeps[k] = PrescribedWaits[k]
    \* one wait after each failed attempt but the third
    /\ Len(sleeps) = IF FailedAttempts = 3 THEN 2 ELSE FailedAttempts
    \* every request but the current one has failed
    /\ requests \in {FailedAttempts, FailedAttempts + 1}
    /\ FailedAttempts = 3 =>
        /\ pc = "raised"
        /\ raised = Raised(errors[3])
    /\ pc = "returned" =>
        /\ requests = FailedAttempts + 1
        /\ raised = None
        /\ Len(ocr_return) = 3
    /\ pc = "raised" =>
        /\ ocr_return = None
        /\ requests = IF RaisedOther
                      THEN FailedAttempts + 1
                      ELSE 3
        /\ RaisedOther \/ (FailedAttempts = 3 /\ raised = Raised(errors[3]))
    /\ ~Ended => ocr_return = None /\ raised = None

\* once the call has ended, nothing more is requested and nothing is waited for
NoStepAfterEnd == Ended => (requests' = requests /\ sleeps' = sleeps /\ pc' = pc)

\* an exception the loop does not retry on ends the call in the step it occurs
PropagatesAtOnce ==
    (~RaisedOther /\ RaisedOther') =>
        (pc = "awaiting" /\ pc' = "raised" /\ requests' = requests /\ sleeps' = sleeps)

\* C18: a call of ocr_page makes at most 3 requests; it returns on the first
\* successful one and requests nothing after it; after the first and the
\* second attempt that fail with an HTTP status error, a read timeout or a
\* missing key it waits 2 s and 4 s and tries again; after the third it raises
\* that attempt's error without waiting; any other exception ends the call at
\* once; and every call ends, with a value or with an exception.
C18_BoundedRetry ==
    /\ []RetryDiscipline
    /\ [][NoStepAfterEnd /\ PropagatesAtOnce]_vars
    /\ <>Ended

\* three failed attempts, 2 s and 4 s waited, the third error raised
C18_Witness ==
    /\ pc = "raised"
    /\ requests = 3
    /\ errors = <<"ReadTimeout", "KeyError", "HTTPStatusError">>
    /\ sleeps = <<2, 4>>
    /\ raised = Raised("HTTPStatusError")

----------------------------------------------------------------------------
(* The five functions of the pipeline, each called on its own inputs       *)

Init == InitStrip \/ InitParse \/ InitSanitize

Next == StripHeaders \/ ParseStructure \/ NextSanitize

Spec == Init /\ [][Next]_vars

=============================================================================
